---- MODULE Spec2Model ----
(***************************************************************************)
(* Collection header protocol of fory-core (serializer/collection.rs):    *)
(* write_collection_type_info / write_collection on the write side,       *)
(* read_collection_type_info / read_collection / read_collection_into on  *)
(* the read side, over a byte buffer.  The byte cursor (LEB128 varints),  *)
(* the element type-info codec and the per-element envelope codec live    *)
(* outside collection.rs and are modelled from the design document.       *)
(***************************************************************************)
EXTENDS Integers, Sequences, FiniteSets, TLC

\* ---------------------------------------------------------------- bounds
MaxLen == 2
MaxVal == 2
MaxCap == 3

\* ------------------------------------------------------- program constants
HAS_NULL == 2
DECL_ELEMENT_TYPE == 4
IS_SAME_TYPE == 8

\* wire identifiers of the resolver and markers of the envelope codec
LIST == 21
INT32_ARRAY == 33
PRIMITIVE_ARRAY_TYPES == {INT32_ARRAY}
ELEMENT_TYPE_ID == 4
NULL_FLAG == 253
REF_FLAG == 254
NOT_NULL_VALUE_FLAG == 255
REF_VALUE_FLAG == 0

\* the absent element (Option::None); present elements are 1..MaxVal
None == 0
Vals == 1..MaxVal

\* capability descriptor of an element type T
ElemTypes == [poly : BOOLEAN, shared : BOOLEAN, opt : BOOLEAN]
fory_is_polymorphic(T) == T.poly
fory_is_shared_ref(T) == T.shared
fory_is_option(T) == T.opt
fory_is_none(item) == item = None

\* collections of at most MaxLen elements an element type T can hold
ElemsOf(T) == IF fory_is_option(T) THEN Vals \cup {None} ELSE Vals
Collections(T) == UNION {[1..n -> ElemsOf(T)] : n \in 0..MaxLen}

\* ------------------------------------------------------------ byte cursor
Max(a, b) == IF a >= b THEN a ELSE b

\* (header & mask) != 0 for a one-bit mask
HeaderBit(header, mask) == (header \div mask) % 2 = 1
\* header |= mask for a one-bit mask
HeaderOr(header, mask) == IF HeaderBit(header, mask) THEN header ELSE header + mask

RECURSIVE varuint32(_)
varuint32(v) ==
    IF v < 128 THEN <<v>> ELSE <<128 + (v % 128)>> \o varuint32(v \div 128)

write_varuint32(w, v) == w \o varuint32(v)
write_u8(w, b) == Append(w, b % 256)

\* reads return [ok, value, cursor]; cursor counts the bytes consumed so far
read_u8(buf, cursor) ==
    IF cursor < Len(buf)
    THEN [ok |-> TRUE, value |-> buf[cursor + 1], cursor |-> cursor + 1]
    ELSE [ok |-> FALSE, value |-> 0, cursor |-> cursor]

\* a decoded u32 is kept as value (bits 0..27, from the first four bytes) and
\* high (bits 28..31, from the fifth byte, which always ends the varint)
RECURSIVE read_varuint32_from(_, _, _, _, _)
read_varuint32_from(buf, cursor, k, mult, acc) ==
    IF cursor >= Len(buf)
    THEN [ok |-> FALSE, value |-> 0, high |-> 0, cursor |-> cursor]
    ELSE LET b == buf[cursor + 1]
         IN IF k = 5
            THEN [ok |-> TRUE, value |-> acc, high |-> b % 16,
                  cursor |-> cursor + 1]
            ELSE IF b < 128
            THEN [ok |-> TRUE, value |-> acc + b * mult, high |-> 0,
                  cursor |-> cursor + 1]
            ELSE read_varuint32_from(buf, cursor + 1, k + 1, mult * 128,
                                     acc + (b % 128) * mult)

\* u32 comparison with a constant below 2^28
U32Is(r, c) == r.high = 0 /\ r.value = c
\* iterations of 0..len; every element read consumes a byte or fails, so a
\* count of 2^28 or more runs exactly as 2^28 does
U32Count(r) == IF r.high = 0 THEN r.value ELSE 268435456

read_varuint32(buf, cursor) == read_varuint32_from(buf, cursor, 1, 1, 0)

\* ------------------------------------------ element type-info codec of T
fory_write_type_info(w, is_field) ==
    IF is_field THEN w ELSE write_varuint32(w, ELEMENT_TYPE_ID)

\* returns [ok, cursor]; a descriptor that is missing or names another type
\* cannot be reported through the unit return type and aborts the call
fory_read_type_info(buf, cursor, declared) ==
    IF declared THEN [ok |-> TRUE, cursor |-> cursor]
    ELSE LET r == read_varuint32(buf, cursor)
         IN [ok |-> r.ok /\ U32Is(r, ELEMENT_TYPE_ID), cursor |-> r.cursor]

\* --------------------------------------------------- element value codec
\* runtime type identity carried by every element of a polymorphic type
RuntimeTypeId(item) == ELEMENT_TYPE_ID + item
RuntimeTypeIds == {RuntimeTypeId(v) : v \in Vals}

fory_write_data(w, item, T) ==
    IF fory_is_polymorphic(T)
    THEN write_u8(write_varuint32(w, RuntimeTypeId(item)), item)
    ELSE write_u8(w, item)

\* returns [ok, value, cursor]; ok = FALSE is Err(..)
fory_read_data(buf, cursor, T) ==
    LET t == IF fory_is_polymorphic(T) THEN read_varuint32(buf, cursor)
             ELSE [ok |-> TRUE, value |-> 0, high |-> 0, cursor |-> cursor]
        v == read_u8(buf, t.cursor)
    IN IF ~t.ok \/ (fory_is_polymorphic(T)
                     /\ ~\E id \in RuntimeTypeIds : U32Is(t, id))
       THEN [ok |-> FALSE, value |-> None, cursor |-> t.cursor]
       ELSE IF ~v.ok \/ v.value \notin Vals
            THEN [ok |-> FALSE, value |-> None, cursor |-> v.cursor]
            ELSE [ok |-> TRUE, value |-> v.value, cursor |-> v.cursor]

\* ------------------------------------------------ element envelope codec
\* envelope-lite writer: the marker is omitted under skip_ref_flag
write_ref_info_data(w, item, T, is_field, skip_ref_flag) ==
    IF fory_is_none(item) THEN write_u8(w, NULL_FLAG)
    ELSE fory_write_data(IF skip_ref_flag THEN w
                         ELSE write_u8(w, NOT_NULL_VALUE_FLAG), item, T)

read_ref_info_data(buf, cursor, T, declared, skip_ref_flag) ==
    IF skip_ref_flag THEN fory_read_data(buf, cursor, T)
    ELSE LET m == read_u8(buf, cursor)
         IN IF ~m.ok THEN [ok |-> FALSE, value |-> None, cursor |-> m.cursor]
            ELSE IF m.value = NULL_FLAG
                 THEN [ok |-> fory_is_option(T), value |-> None,
                       cursor |-> m.cursor]
            ELSE IF m.value = NOT_NULL_VALUE_FLAG
                 THEN fory_read_data(buf, m.cursor, T)
            ELSE [ok |-> FALSE, value |-> None, cursor |-> m.cursor]

\* position (from 0) of item in the reference table, Len(refs) when absent
RECURSIVE RefIndexFrom(_, _, _)
RefIndexFrom(refs, item, i) ==
    IF i > Len(refs) THEN Len(refs)
    ELSE IF refs[i] = item THEN i - 1 ELSE RefIndexFrom(refs, item, i + 1)
RefIndex(refs, item) == RefIndexFrom(refs, item, 1)

\* full envelope writer; returns [w, refs]
fory_write(w, item, T, is_field, refs) ==
    IF fory_is_none(item) THEN [w |-> write_u8(w, NULL_FLAG), refs |-> refs]
    ELSE IF fory_is_shared_ref(T)
         THEN IF RefIndex(refs, item) < Len(refs)
              THEN [w |-> write_varuint32(write_u8(w, REF_FLAG),
                                          RefIndex(refs, item)),
                    refs |-> refs]
              ELSE [w |-> fory_write_data(write_u8(w, REF_VALUE_FLAG), item, T),
                    refs |-> Append(refs, item)]
         ELSE [w |-> fory_write_data(write_u8(w, NOT_NULL_VALUE_FLAG), item, T),
               refs |-> refs]

\* full envelope reader; returns [ok, value, cursor, refs]
fory_read(buf, cursor, T, declared, refs) ==
    LET m == read_u8(buf, cursor)
        fail(c) == [ok |-> FALSE, value |-> None, cursor |-> c, refs |-> refs]
    IN IF ~m.ok THEN fail(m.cursor)
       ELSE IF m.value = NULL_FLAG
            THEN IF fory_is_option(T)
                 THEN [ok |-> TRUE, value |-> None, cursor |-> m.cursor,
                       refs |-> refs]
                 ELSE fail(m.cursor)
       ELSE IF m.value = REF_FLAG /\ fory_is_shared_ref(T)
            THEN LET i == read_varuint32(buf, m.cursor)
                 IN IF i.ok /\ i.high = 0 /\ i.value < Len(refs)
                    THEN [ok |-> TRUE, value |-> refs[i.value + 1],
                          cursor |-> i.cursor, refs |-> refs]
                    ELSE fail(i.cursor)
       ELSE IF m.value = REF_VALUE_FLAG /\ fory_is_shared_ref(T)
            THEN LET d == fory_read_data(buf, m.cursor, T)
                 IN IF d.ok
                    THEN [ok |-> TRUE, value |-> d.value, cursor |-> d.cursor,
                          refs |-> Append(refs, d.value)]
                    ELSE fail(d.cursor)
       ELSE IF m.value = NOT_NULL_VALUE_FLAG /\ ~fory_is_shared_ref(T)
            THEN LET d == fory_read_data(buf, m.cursor, T)
                 IN IF d.ok
                    THEN [ok |-> TRUE, value |-> d.value, cursor |-> d.cursor,
                          refs |-> refs]
                    ELSE fail(d.cursor)
       ELSE fail(m.cursor)

\* ------------------------------------------------------------ write side
write_collection_type_info(w, is_field, collection_type_id) ==
    IF is_field THEN w ELSE write_varuint32(w, collection_type_id)

\* the scan of lines 58-65: only an element type that can be absent is scanned
write_has_null(items, T) ==
    fory_is_option(T) /\ \E i \in 1..Len(items) : fory_is_none(items[i])

\* variant: the polymorphism capability is taken without the negation
write_is_same_type_inverted(T) == fory_is_polymorphic(T)

write_is_same_type(T) == ~fory_is_polymorphic(T)

write_header(items, T, is_field) ==
    LET h1 == IF write_has_null(items, T) THEN HeaderOr(0, HAS_NULL) ELSE 0
        h2 == IF is_field THEN HeaderOr(h1, DECL_ELEMENT_TYPE) ELSE h1
    IN IF write_is_same_type(T) THEN HeaderOr(h2, IS_SAME_TYPE) ELSE h2

write_full_path(T) == fory_is_polymorphic(T) \/ fory_is_shared_ref(T)

write_skip_ref_flag(items, T) ==
    write_is_same_type(T) /\ ~write_has_null(items, T)

\* the two element loops; st = [w, refs, calls]
RECURSIVE write_items(_, _, _, _, _, _)
write_items(st, items, i, T, is_field, full) ==
    IF i > Len(items) THEN st
    ELSE IF full
    THEN LET r == fory_write(st.w, items[i], T, is_field, st.refs)
         IN write_items([w |-> r.w, refs |-> r.refs,
                         calls |-> Append(st.calls,
                             [path |-> "full", declared |-> is_field,
                              skip_ref_flag |-> FALSE])],
                        items, i + 1, T, is_field, full)
    ELSE LET skip == write_skip_ref_flag(items, T)
         IN write_items([w |-> write_ref_info_data(st.w, items[i], T,
                                                   is_field, skip),
                         refs |-> st.refs,
                         calls |-> Append(st.calls,
                             [path |-> "lite", declared |-> is_field,
                              skip_ref_flag |-> skip])],
                        items, i + 1, T, is_field, full)

\* variant: no early return for an empty collection
write_collection_header_always(w, items, T, is_field) ==
    LET w1 == write_varuint32(w, Len(items))
        w2 == write_u8(w1, write_header(items, T, is_field))
        w3 == fory_write_type_info(w2, is_field)
        r == write_items([w |-> w3, refs |-> <<>>, calls |-> <<>>],
                         items, 1, T, is_field, write_full_path(T))
    IN [w |-> r.w, calls |-> r.calls]

\* returns [w, calls]: the buffer and the element-write calls made
write_collection(w, items, T, is_field) ==
    LET w1 == write_varuint32(w, Len(items))
    IN IF Len(items) = 0 THEN [w |-> w1, calls |-> <<>>]
       ELSE LET w2 == write_u8(w1, write_header(items, T, is_field))
                w3 == fory_write_type_info(w2, is_field)
                r == write_items([w |-> w3, refs |-> <<>>, calls |-> <<>>],
                                 items, 1, T, is_field, write_full_path(T))
            IN [w |-> r.w, calls |-> r.calls]

\* ------------------------------------------------------------- read side
\* variant: the identifier is read but not compared with the expected one
read_type_info_unchecked(buf, cursor, is_field, collection_type_id) ==
    IF is_field THEN [status |-> "Ok", cursor |-> cursor]
    ELSE LET r == read_varuint32(buf, cursor)
         IN IF ~r.ok THEN [status |-> "Panic", cursor |-> r.cursor]
            ELSE IF \E id \in PRIMITIVE_ARRAY_TYPES : U32Is(r, id)
                 THEN [status |-> "Panic", cursor |-> r.cursor]
            ELSE [status |-> "Ok", cursor |-> r.cursor]

\* returns [status, cursor]; both assertions and the explicit panic abort
read_collection_type_info(buf, cursor, is_field, collection_type_id) ==
    IF is_field THEN [status |-> "Ok", cursor |-> cursor]
    ELSE LET r == read_varuint32(buf, cursor)
         IN IF ~r.ok THEN [status |-> "Panic", cursor |-> r.cursor]
            ELSE IF ~U32Is(r, collection_type_id)
                 THEN [status |-> "Panic", cursor |-> r.cursor]
            ELSE IF \E id \in PRIMITIVE_ARRAY_TYPES : U32Is(r, id)
                 THEN [status |-> "Panic", cursor |-> r.cursor]
            ELSE [status |-> "Ok", cursor |-> r.cursor]

\* variant: a failed element is dropped and the iteration goes on
RECURSIVE collect_skips_failed(_, _, _, _, _, _, _, _)
collect_skips_failed(buf, cursor, n, T, declared, full, skip_ref_flag, st) ==
    IF n = 0 \/ cursor >= Len(buf)
    THEN [status |-> "Ok", elems |-> st.elems, cursor |-> cursor,
          calls |-> st.calls]
    ELSE LET r == IF full THEN fory_read(buf, cursor, T, declared, st.refs)
                  ELSE read_ref_info_data(buf, cursor, T, declared,
                                          skip_ref_flag)
             calls == Append(st.calls,
                         [path |-> IF full THEN "full" ELSE "lite",
                          declared |-> declared,
                          skip_ref_flag |-> ~full /\ skip_ref_flag,
                          at |-> cursor])
         IN collect_skips_failed(buf, Max(r.cursor, cursor + 1), n - 1, T,
                declared, full, skip_ref_flag,
                [elems |-> IF r.ok THEN Append(st.elems, r.value)
                           ELSE st.elems,
                 refs |-> IF full THEN r.refs ELSE st.refs,
                 calls |-> calls])

\* (0..len).map(read one element).collect::<Result<_, Error>>():
\* elements are read in index order and the first Err ends the iteration.
\* st = [elems, refs, calls]; returns [status, elems, cursor, calls], where
\* calls lists every element read made, with its arguments and cursor
RECURSIVE collect(_, _, _, _, _, _, _, _)
collect(buf, cursor, n, T, declared, full, skip_ref_flag, st) ==
    IF n = 0
    THEN [status |-> "Ok", elems |-> st.elems, cursor |-> cursor,
          calls |-> st.calls]
    ELSE LET r == IF full THEN fory_read(buf, cursor, T, declared, st.refs)
                  ELSE read_ref_info_data(buf, cursor, T, declared,
                                          skip_ref_flag)
             calls == Append(st.calls,
                         [path |-> IF full THEN "full" ELSE "lite",
                          declared |-> declared,
                          skip_ref_flag |-> ~full /\ skip_ref_flag,
                          at |-> cursor])
         IN IF r.ok
            THEN collect(buf, r.cursor, n - 1, T, declared, full,
                         skip_ref_flag,
                         [elems |-> Append(st.elems, r.value),
                          refs |-> IF full THEN r.refs ELSE st.refs,
                          calls |-> calls])
            ELSE [status |-> "Err", elems |-> <<>>, cursor |-> r.cursor,
                  calls |-> calls]

NoElems == [elems |-> <<>>, refs |-> <<>>, calls |-> <<>>]
Aborted(cursor) ==
    [status |-> "Panic", elems |-> <<>>, cursor |-> cursor, calls |-> <<>>]

\* variant: shared element types are sent down the envelope-lite path
read_full_path_ignores_shared(T) == fory_is_polymorphic(T)

read_full_path(T) == fory_is_polymorphic(T) \/ fory_is_shared_ref(T)

\* variant: HAS_NULL is not consulted
read_skip_ref_flag_ignores_null(header) == HeaderBit(header, IS_SAME_TYPE)

read_skip_ref_flag(header) ==
    HeaderBit(header, IS_SAME_TYPE) /\ ~HeaderBit(header, HAS_NULL)

\* returns [status, elems, cursor, calls]
read_collection(buf, cursor, T) ==
    LET len == read_varuint32(buf, cursor)
    IN IF ~len.ok THEN Aborted(len.cursor)
       ELSE IF U32Is(len, 0)
       THEN [status |-> "Ok", elems |-> <<>>, cursor |-> len.cursor,
             calls |-> <<>>]
       ELSE LET header == read_u8(buf, len.cursor)
                declared == HeaderBit(header.value, DECL_ELEMENT_TYPE)
                ti == fory_read_type_info(buf, header.cursor, declared)
            IN IF ~header.ok THEN Aborted(header.cursor)
               ELSE IF ~ti.ok THEN Aborted(ti.cursor)
               ELSE collect(buf, ti.cursor, U32Count(len), T, declared,
                            read_full_path(T),
                            read_skip_ref_flag(header.value), NoElems)

\* variant: the contents are left in place
clear_keeps_elems(c) == c

\* variant: the container is replaced by a fresh one
clear_releases_storage(c) == [elems |-> <<>>, cap |-> 0]

\* a container is [elems, cap]: logical contents and reserved capacity
clear(c) == [elems |-> <<>>, cap |-> c.cap]

\* bulk insert; storage grows (amortised doubling) only when it is too small
extend(c, elements) ==
    LET needed == Len(c.elems) + Len(elements)
    IN [elems |-> c.elems \o elements,
        cap |-> IF needed <= c.cap THEN c.cap ELSE Max(2 * c.cap, needed)]

into_full_path(T) == fory_is_polymorphic(T) \/ fory_is_shared_ref(T)

\* variant: HAS_NULL is not consulted
into_skip_ref_flag_ignores_null(header) == HeaderBit(header, IS_SAME_TYPE)

into_skip_ref_flag(header) ==
    HeaderBit(header, IS_SAME_TYPE) /\ ~HeaderBit(header, HAS_NULL)

\* returns [status, output, cursor, calls]
read_collection_into(buf, cursor, T, output) ==
    LET len == read_varuint32(buf, cursor)
        cleared == clear(output)
        done(status, out, c, calls) ==
            [status |-> status, output |-> out, cursor |-> c, calls |-> calls]
    IN IF ~len.ok THEN done("Panic", output, len.cursor, <<>>)
       ELSE IF U32Is(len, 0) THEN done("Ok", cleared, len.cursor, <<>>)
       ELSE LET header == read_u8(buf, len.cursor)
                declared == HeaderBit(header.value, DECL_ELEMENT_TYPE)
                ti == fory_read_type_info(buf, header.cursor, declared)
                elements == collect(buf, ti.cursor, U32Count(len), T, declared,
                                    into_full_path(T),
                                    into_skip_ref_flag(header.value), NoElems)
            IN IF ~header.ok THEN done("Panic", cleared, header.cursor, <<>>)
               ELSE IF ~ti.ok THEN done("Panic", cleared, ti.cursor, <<>>)
               ELSE IF elements.status = "Ok"
                    THEN done("Ok", extend(cleared, elements.elems),
                              elements.cursor, elements.calls)
                    ELSE done("Err", cleared, elements.cursor, elements.calls)

\* ---------------------------------------------------------- state machine
\* collection type identifiers the two sides may be instantiated with
CollectionTypeIds == {LIST, INT32_ARRAY}

\* bytes a damaged stream may carry in place of a written one
CorruptBytes == {0, HAS_NULL, IS_SAME_TYPE, NULL_FLAG, NOT_NULL_VALUE_FLAG}

\* an element held by the caller's container before the call; never written
Stale == MaxVal + 1
Targets == {[elems |-> <<>>, cap |-> 0],
            [elems |-> <<Stale>>, cap |-> 1],
            [elems |-> <<Stale>>, cap |-> MaxCap]}

NoResult == [status |-> "Ok", elems |-> <<>>, cursor |-> 0, calls |-> <<>>]

VARIABLES
    T,                \* capability descriptor of the element type
    is_field,         \* the collection occupies a statically declared field
    items,            \* the collection handed to the writer
    written_type_id,  \* collection_type_id of the writing side
    bytes,            \* the byte buffer of the write, then read, context
    wcalls,           \* element-write calls made by write_collection
    corrupted,        \* the buffer was damaged after the write
    pc,               \* position of the (de)serialize call sequence
    expected_type_id, \* collection_type_id of the reading side
    start,            \* reader cursor after read_collection_type_info
    type_status,      \* outcome of read_collection_type_info
    doneNew, resNew,  \* read_collection was run, and its outcome
    doneInto, resInto,\* read_collection_into was run, and its outcome
    prior,            \* the caller's container before the call
    output            \* the caller's container

vars == <<T, is_field, items, written_type_id, bytes, wcalls, corrupted, pc,
          expected_type_id, start, type_status, doneNew, resNew, doneInto,
          resInto, prior, output>>

Init ==
    /\ T \in ElemTypes
    /\ is_field \in BOOLEAN
    /\ items \in Collections(T)
    /\ written_type_id = LIST
    /\ expected_type_id = LIST
    /\ bytes = <<>>
    /\ wcalls = <<>>
    /\ corrupted = FALSE
    /\ pc = "start"
    /\ start = 0
    /\ type_status = "Ok"
    /\ doneNew = FALSE /\ resNew = NoResult
    /\ doneInto = FALSE /\ resInto = NoResult
    /\ prior \in Targets
    /\ output = prior

WriteTypeInfo(id) ==
    /\ pc = "start"
    /\ bytes' = write_collection_type_info(bytes, is_field, id)
    /\ written_type_id' = id
    /\ pc' = "type_info_written"
    /\ UNCHANGED <<T, is_field, items, wcalls, corrupted, expected_type_id,
                   start, type_status, doneNew, resNew, doneInto, resInto,
                   prior, output>>

WriteCollection ==
    /\ pc = "type_info_written"
    /\ LET r == write_collection(bytes, items, T, is_field)
       IN /\ bytes' = r.w
          /\ wcalls' = r.calls
    /\ pc' = "written"
    /\ UNCHANGED <<T, is_field, items, written_type_id, corrupted,
                   expected_type_id, start, type_status, doneNew, resNew,
                   doneInto, resInto, prior, output>>

\* one byte of the stream is overwritten in transit
Corrupt(i, b) ==
    /\ pc = "written" /\ ~corrupted
    /\ i \in 1..Len(bytes) /\ bytes[i] # b
    /\ bytes' = [bytes EXCEPT ![i] = b]
    /\ corrupted' = TRUE
    /\ UNCHANGED <<T, is_field, items, written_type_id, wcalls, pc,
                   expected_type_id, start, type_status, doneNew, resNew,
                   doneInto, resInto, prior, output>>

\* the stream is cut short in transit
Truncate(n) ==
    /\ pc = "written" /\ ~corrupted
    /\ n < Len(bytes)
    /\ bytes' = SubSeq(bytes, 1, n)
    /\ corrupted' = TRUE
    /\ UNCHANGED <<T, is_field, items, written_type_id, wcalls, pc,
                   expected_type_id, start, type_status, doneNew, resNew,
                   doneInto, resInto, prior, output>>

ReadTypeInfo(id) ==
    /\ pc = "written"
    /\ LET r == read_collection_type_info(bytes, 0, is_field, id)
       IN /\ type_status' = r.status
          /\ start' = r.cursor
          /\ pc' = IF r.status = "Ok" THEN "reading" ELSE "rejected"
    /\ expected_type_id' = id
    /\ UNCHANGED <<T, is_field, items, written_type_id, bytes, wcalls,
                   corrupted, doneNew, resNew, doneInto, resInto, prior,
                   output>>

ReadCollection ==
    /\ pc = "reading" /\ ~doneNew
    /\ resNew' = read_collection(bytes, start, T)
    /\ doneNew' = TRUE
    /\ UNCHANGED <<T, is_field, items, written_type_id, bytes, wcalls,
                   corrupted, pc, expected_type_id, start, type_status,
                   doneInto, resInto, prior, output>>

ReadCollectionInto ==
    /\ pc = "reading" /\ ~doneInto
    /\ LET r == read_collection_into(bytes, start, T, output)
       IN /\ output' = r.output
          /\ resInto' = [status |-> r.status, elems |-> r.output.elems,
                         cursor |-> r.cursor, calls |-> r.calls]
    /\ doneInto' = TRUE
    /\ UNCHANGED <<T, is_field, items, written_type_id, bytes, wcalls,
                   corrupted, pc, expected_type_id, start, type_status,
                   doneNew, resNew, prior>>

Next ==
    \/ \E id \in CollectionTypeIds : WriteTypeInfo(id)
    \/ WriteCollection
    \/ \E i \in 1..(3 * MaxLen + 6), b \in CorruptBytes : Corrupt(i, b)
    \/ \E n \in 0..(3 * MaxLen + 6) : Truncate(n)
    \/ \E id \in CollectionTypeIds : ReadTypeInfo(id)
    \/ ReadCollection
    \/ ReadCollectionInto

Spec == Init /\ [][Next]_vars

\* ------------------------------------------------------------ properties
Written == pc \in {"written", "reading", "rejected"}
HasNone(c) == \E i \in 1..Len(c) : c[i] = None
\* bytes in front of the length: the collection type id of a non-field write
TypeIdLen == IF is_field THEN 0 ELSE Len(varuint32(written_type_id))
CallArgs(c) == [path |-> c.path, declared |-> c.declared,
                skip_ref_flag |-> c.skip_ref_flag]
ArgsOf(calls) == [i \in 1..Len(calls) |-> CallArgs(calls[i])]

\* C1: read_collection applied to the bytes write_collection produced returns
\* Ok with the written elements in the written order and leaves the cursor at
\* the end of the written bytes, for every element type and is_field.
RoundTrip ==
    (doneNew /\ ~corrupted) =>
        /\ resNew.status = "Ok"
        /\ resNew.elems = items
        /\ resNew.cursor = Len(bytes)

RoundTripWitness ==
    /\ doneNew /\ ~corrupted
    /\ Len(items) = MaxLen /\ HasNone(items) /\ items[1] # None
    /\ ~fory_is_polymorphic(T) /\ ~fory_is_shared_ref(T)
    /\ resNew.elems = items

\* C2: an empty collection is written as the length alone (after the type id
\* of a non-field write), a non-empty one carries a header byte and its
\* elements; a stream whose length is 0 decodes to an empty container and
\* nothing after the length is consumed, on both decode paths.
EmptyShortcut ==
    /\ (Written /\ ~corrupted) =>
          /\ bytes[TypeIdLen + 1] = Len(items)
          /\ (Len(items) = 0) <=> (Len(bytes) = TypeIdLen + 1)
          /\ (Len(items) > 0) => (Len(bytes) >= TypeIdLen + 2 + Len(items))
    /\ LET len == read_varuint32(bytes, start)
       IN (len.ok /\ U32Is(len, 0)) =>
            /\ doneNew => /\ resNew.status = "Ok" /\ resNew.elems = <<>>
                          /\ resNew.cursor = len.cursor /\ resNew.calls = <<>>
            /\ doneInto => /\ resInto.status = "Ok" /\ output.elems = <<>>
                           /\ resInto.cursor = len.cursor
                           /\ resInto.calls = <<>>

EmptyShortcutWitness ==
    /\ doneNew /\ doneInto /\ ~corrupted /\ ~is_field
    /\ items = <<>> /\ prior.elems # <<>>
    /\ Len(bytes) = TypeIdLen + 1 /\ output.elems = <<>>

\* C3: the header byte of a non-empty collection has HAS_NULL set iff an
\* element is null, DECL_ELEMENT_TYPE iff it is written as a declared field,
\* IS_SAME_TYPE iff the element type is not polymorphic, and no other bit;
\* the collection type id is written exactly for a non-field encode.
HeaderBits ==
    /\ (pc = "type_info_written") =>
          IF is_field THEN bytes = <<>>
          ELSE U32Is(read_varuint32(bytes, 0), written_type_id)
               /\ read_varuint32(bytes, 0).cursor = Len(bytes)
    /\ (Written /\ ~corrupted /\ Len(items) > 0) =>
          LET header == bytes[TypeIdLen + 2]
          IN /\ HeaderBit(header, HAS_NULL) <=> HasNone(items)
             /\ HeaderBit(header, DECL_ELEMENT_TYPE) <=> is_field
             /\ HeaderBit(header, IS_SAME_TYPE) <=> ~T.poly
             /\ header = (IF HasNone(items) THEN 2 ELSE 0)
                         + (IF is_field THEN 4 ELSE 0)
                         + (IF T.poly THEN 0 ELSE 8)

HeaderBitsWitness ==
    /\ pc = "written" /\ ~corrupted
    /\ HasNone(items) /\ is_field /\ ~T.poly
    /\ bytes[TypeIdLen + 2] = 14

\* C4: for a non-field collection the identifier is read, and an identifier
\* that differs from the expected one, or that belongs to the primitive-array
\* family, aborts the decode before any element is decoded and leaves the
\* caller's container untouched; for a declared field no identifier is read.
TypeInfoRejection ==
    (pc \in {"reading", "rejected"}) =>
        LET remote == read_varuint32(bytes, 0)
        IN /\ is_field => (type_status = "Ok" /\ start = 0)
           /\ (~is_field /\ type_status = "Ok") => start = remote.cursor
           /\ (/\ ~is_field
               /\ remote.ok
               /\ \/ ~U32Is(remote, expected_type_id)
                  \/ U32Is(remote, INT32_ARRAY)) =>
                    /\ type_status = "Panic" /\ pc = "rejected"
                    /\ ~doneNew /\ ~doneInto /\ output = prior

TypeInfoRejectionWitness ==
    /\ pc = "rejected" /\ ~corrupted /\ ~is_field
    /\ written_type_id = INT32_ARRAY /\ expected_type_id = LIST
    /\ Len(items) > 0

\* C5: on the same stream read_collection_into succeeds iff read_collection
\* does, consumes the same bytes and makes the same element reads with the
\* same arguments; on success the container holds exactly the elements
\* read_collection returns and none of its earlier ones.
IntoEquivalent ==
    (doneNew /\ doneInto) =>
        /\ (resInto.status = "Ok") <=> (resNew.status = "Ok")
        /\ resInto.cursor = resNew.cursor
        /\ resInto.calls = resNew.calls
        /\ (resNew.status = "Ok") =>
              /\ output.elems = resNew.elems
              /\ \A i \in 1..Len(output.elems) : output.elems[i] # Stale

IntoEquivalentWitness ==
    /\ doneNew /\ doneInto /\ corrupted
    /\ resNew.status = "Ok" /\ resInto.status = "Ok"
    /\ prior.elems # <<>>
    /\ output.elems # items /\ Len(output.elems) >= 2 /\ HasNone(output.elems)

\* C6: when an element fails to decode, read_collection_into returns the
\* error and the container is empty: it holds neither its earlier elements
\* nor any element decoded from the stream.
PartialFailure ==
    (doneInto /\ resInto.status = "Err") =>
        /\ output.elems = <<>>
        /\ resInto.calls # <<>>

PartialFailureWitness ==
    /\ doneInto /\ resInto.status = "Err"
    /\ prior.elems # <<>>
    /\ Len(resInto.calls) >= 2
    /\ output.elems = <<>>

\* C7: the in-place path never shrinks the container's capacity; a payload
\* of fewer elements than the reserved capacity K leaves the container equal
\* to the payload with capacity at least K.
CapacityPreserved ==
    doneInto =>
        /\ output.cap >= prior.cap
        /\ (~corrupted /\ Len(items) < prior.cap) =>
              /\ resInto.status = "Ok"
              /\ output.elems = items
              /\ output.cap >= prior.cap

CapacityPreservedWitness ==
    /\ doneInto /\ ~corrupted
    /\ prior.elems # <<>> /\ prior.cap = MaxCap
    /\ Len(items) > 0 /\ Len(items) < prior.cap
    /\ output.elems = items /\ output.cap = MaxCap

\* one element read repeated at the cursor a recorded call started from
\* (reference table left out: only for element types that are not shared)
Reread(call) ==
    IF call.path = "full"
    THEN fory_read(bytes, call.at, T, call.declared, <<>>)
    ELSE read_ref_info_data(bytes, call.at, T, call.declared,
                            call.skip_ref_flag)

\* C8: read_collection decodes elements in index order; an Ok result holds
\* exactly length elements, one per read; when the element at index i fails
\* the call returns the error with no container, the failed read is the last
\* one made, and every read before it succeeded and handed its cursor on.
NoPartialContainer ==
    doneNew =>
        LET len == read_varuint32(bytes, start)
            n == Len(resNew.calls)
        IN /\ (resNew.status = "Ok") =>
                 /\ U32Is(len, Len(resNew.elems))
                 /\ n = Len(resNew.elems)
           /\ (resNew.status = "Err") =>
                 /\ resNew.elems = <<>>
                 /\ n >= 1 /\ (len.high = 0 => n <= len.value)
                 /\ ~fory_is_shared_ref(T) => ~Reread(resNew.calls[n]).ok
           /\ ~fory_is_shared_ref(T) =>
                 \A i \in 1..n :
                    (i < n \/ resNew.status = "Ok") =>
                       /\ Reread(resNew.calls[i]).ok
                       /\ i < n => Reread(resNew.calls[i]).cursor
                                     = resNew.calls[i + 1].at
                       /\ resNew.status = "Ok" =>
                             Reread(resNew.calls[i]).value = resNew.elems[i]

NoPartialContainerWitness ==
    /\ doneNew /\ resNew.status = "Err"
    /\ ~fory_is_shared_ref(T)
    /\ Len(items) = MaxLen
    /\ Len(resNew.calls) >= 1 /\ Len(resNew.calls) < MaxLen
    /\ U32Is(read_varuint32(bytes, start), MaxLen)

\* C9: a declared length larger than the number of bytes left in the stream
\* is rejected before any element is decoded, on both decode paths.
LargeLengthRejected ==
    LET len == read_varuint32(bytes, start)
        implausible == len.ok /\ (len.high > 0
                                  \/ len.value > Len(bytes) - len.cursor)
    IN /\ (doneNew /\ implausible) =>
             (resNew.status # "Ok" /\ resNew.calls = <<>>)
       /\ (doneInto /\ implausible) =>
             (resInto.status # "Ok" /\ resInto.calls = <<>>)

\* C10: on the bytes of a non-empty collection both readers take the
\* element path the writer took (full iff the element type is polymorphic or
\* shared) and, on the envelope-lite path, the writer's skip_ref_flag: true
\* when no element is null, false when one is.
PathSymmetry ==
    (~corrupted /\ Len(items) > 0) =>
        /\ doneNew => ArgsOf(resNew.calls) = wcalls
        /\ doneInto => ArgsOf(resInto.calls) = wcalls
        /\ Written =>
              /\ Len(wcalls) = Len(items)
              /\ \A i \in 1..Len(wcalls) :
                    /\ (wcalls[i].path = "full") <=> (T.poly \/ T.shared)
                    /\ (wcalls[i].path = "lite") =>
                          (wcalls[i].skip_ref_flag <=> ~HasNone(items))

PathSymmetryWitness ==
    /\ doneNew /\ doneInto /\ ~corrupted
    /\ ~T.poly /\ ~T.shared /\ HasNone(items) /\ Len(items) = MaxLen
    /\ Len(resNew.calls) = MaxLen
    /\ ~resNew.calls[1].skip_ref_flag /\ resNew.calls[1].path = "lite"
====
